---- MODULE Spec2Model ----
(***************************************************************************)
(* Model of bionic/train.py: Trainer.train, Trainer._train_step and        *)
(* Trainer.forward.                                                        *)
(*                                                                         *)
(* Conventions.                                                            *)
(*  - Node ids and graph indices are the Python values 0..n-1; sequences   *)
(*    (Python lists, tensors) are 1-indexed, so Python x[i] is x[i + 1].   *)
(*  - Python None is the empty sequence <<>>, a value v is <<v>>.          *)
(*  - A tensor entry is modelled by its identity: masks[n, g] is the pair  *)
(*    <<n, g>>, the result of a model call for node n under parameters p   *)
(*    is the record [node |-> n, params |-> p].                            *)
(*  - Loss terms are inputs (masked_scaled_mse and classification_loss are *)
(*    external): each epoch draws from LossValues the value its loss terms *)
(*    take.                                                                *)
(*  - epoch_losses holds NumNodes times the Python value, so that the      *)
(*    division b_loss / (len(index) / batch_size) stays in the integers.   *)
(*  - The model parameters are a version number; every optimizer.step()    *)
(*    produces the next version.                                           *)
(***************************************************************************)
EXTENDS Integers, Sequences, FiniteSets, TLC

\* ---------------------------------------------------------------- bounds
MaxNets == 3
NumNodes == 2
NumEpochs == 2
LabelCounts == {0, 1}
SampleSizes == {0, 1, 2}
BatchSizes == {1, 2}
LossValues == {0, 1}

\* len(self.adj) <= 10 selects add_scalars over add_scalar
TensorboardMaxNets == 10

VARIABLES
    params,        \* self.params and the sizes of the inputs: n_adj, n_labels, sample_size,
                   \* batch_size, use_tensorboard (save_label_predictions is in fwd)
    pc,            \* position of the program
    error,         \* the exception that ended the run, "" for none
    epoch,         \* loop variable of train()
    loss_in,       \* the value of the loss terms of this epoch
    epoch_losses,  \* epoch accumulator
    slot_writes,   \* for each accumulator slot, the loss terms written into it this epoch
    idx_split,     \* groups of graph indices of this epoch
    grp,           \* number of groups already processed
    perm,          \* StatefulSampler.perm (process-wide)
    draws,         \* calls of StatefulSampler.step(random=True) in this epoch
    step,          \* locals of _train_step
    train_loss,    \* local train_loss
    best_loss,     \* local best_loss
    best_state,    \* local best_state
    tensors,       \* tensor storage: address -> parameter version
    hist,          \* parameter version at the end of each completed epoch, last optimizer step
    self_out,      \* self.train_loss, self.best_state
    fwd            \* locals and outputs of forward()

vars == <<params, pc, error, epoch, loss_in, epoch_losses, slot_writes, idx_split, grp,
          perm, draws, step, train_loss, best_loss, best_state, tensors, hist, self_out, fwd>>

\* ---------------------------------------------------------------- helpers
None == <<>>

Min(a, b) == IF a < b THEN a ELSE b

RECURSIVE SumSeq(_)
SumSeq(s) == IF s = <<>> THEN 0 ELSE s[1] + SumSeq(Tail(s))

Zeros(n) == [i \in 1..n |-> 0]

\* the orderings of 0..n-1
Perms(n) == {p \in [1..n -> 0..(n - 1)] : \A i, j \in 1..n : p[i] = p[j] => i = j}

Arange(n) == [i \in 1..n |-> i - 1]

NAdj == params.n_adj
NLabels == params.n_labels
LabelsIsNone == params.n_labels = 0
SubSampling == params.sample_size # 0

\* np.array_split(arr, n): the first len % n groups hold len // n + 1 entries
ArraySplit(arr, n) ==
    LET len == Len(arr)
        q == len \div n
        r == len % n
        start(i) == (i - 1) * q + Min(i - 1, r)
        size(i) == q + (IF i <= r THEN 1 ELSE 0)
    IN [i \in 1..n |-> SubSeq(arr, start(i) + 1, start(i) + size(i))]

\* the number of groups rounded up instead of down
NumSectionsCeil(n_adj, sample_size) == (n_adj + sample_size - 1) \div sample_size

\* line 176: math.floor(len(self.adj) / self.params.sample_size)
NumSections(n_adj, sample_size) == n_adj \div sample_size

\* torch.split(t, size): chunks of size rows, the last one shorter
NumChunks(len, size) == (len + size - 1) \div size
TorchSplit(t, size) ==
    [k \in 1..NumChunks(Len(t), size) |-> SubSeq(t, (k - 1) * size + 1, Min(k * size, Len(t)))]

\* self.masks[n, g]
Masks(n, g) == <<n, g>>


\* StatefulSampler.step(n_samples, random): stores and returns the ordering
StatefulSamplerStep(n, random, drawn) == IF random THEN drawn ELSE Arange(n)

\* NeighborSamplerWithWeights(sampler=StatefulSampler, shuffle=False): the node ids
\* of its batches, read from the stored ordering when the iteration starts
LoaderBatches(stored, size) == TorchSplit(stored, size)

\* the rows taken in the canonical order instead of the order of rand_int
MaskRowsUnpermuted(rand_int, cols) ==
    [r \in 1..Len(rand_int) |-> [c \in 1..Len(cols) |-> Masks(r - 1, cols[c])]]

\* self.masks[:, cols][rand_int]
MaskRows(rand_int, cols) ==
    [r \in 1..Len(rand_int) |-> [c \in 1..Len(cols) |-> Masks(rand_int[r], cols[c])]]

\* m[:, c]
Column(m, c) == [r \in 1..Len(m) |-> m[r][c + 1]]

\* the graphs of batch_loaders, in order
ActiveNets(rand_net_idx) == IF SubSampling THEN rand_net_idx ELSE Arange(NAdj)

\* batch_masks[:, j] with sub-sampling, batch_masks[:, i] without
ReconMaskIndex(j, i) == IF SubSampling THEN j ELSE i

\* the arguments of the masked_scaled_mse calls of one batch
ReconArgs(active, node_ids, batch_masks) ==
    [j \in 1..Len(active) |->
        [adj |-> active[j], node_ids |-> node_ids,
         mask |-> Column(batch_masks, ReconMaskIndex(j - 1, active[j]))]]

\* [loss + curr_loss for loss, curr_loss in zip(losses, curr_losses)]
ZipAdd(losses, curr) == [i \in 1..Min(Len(losses), Len(curr)) |-> losses[i] + curr[i]]

\* the classification terms left out of the sum
LossSumReconOnly(recon_losses, cls_losses, has_preds) == SumSeq(recon_losses)

\* the scalar given to backward()
LossSum(recon_losses, cls_losses, has_preds) ==
    IF has_preds THEN SumSeq(recon_losses \o cls_losses) ELSE SumSeq(recon_losses)

\* the calls made on the optimizer and the loss for one batch
BatchOps == <<"zero_grad", "backward", "step">>

\* optimizer.step(): the next parameter version
OptimizerStep(p) == p + 1

\* self.model.state_dict(): the tensors of the model themselves (torch returns
\* references to the parameters, not copies)
ModelAddr == "model"
StateDict == ModelAddr

\* ---------------------------------------------------------------- initial state
NoStep == [rand_net_idx |-> <<>>, rand_int |-> <<>>, k |-> 0, losses |-> <<>>, tags |-> <<>>,
           ops |-> <<>>, batch |-> <<>>]

NoFwd == [loaded |-> FALSE, i |-> 0, emb_list |-> <<>>, label_preds |-> <<>>,
          save_label_predictions |-> FALSE, emb_df |-> <<>>, pred_dfs |-> <<>>]

Init ==
    /\ params \in [n_adj : 1..MaxNets, n_labels : LabelCounts, sample_size : SampleSizes,
                   batch_size : BatchSizes, use_tensorboard : BOOLEAN]
    /\ pc = "epoch"
    /\ error = ""
    /\ epoch = 0
    /\ loss_in = 0
    /\ epoch_losses = <<>>
    /\ slot_writes = <<>>
    /\ idx_split = <<>>
    /\ grp = 0
    /\ perm = None
    /\ draws = 0
    /\ step = NoStep
    /\ train_loss = <<>>
    /\ best_loss = None
    /\ best_state = None
    /\ tensors = [a \in {ModelAddr} |-> 0]
    /\ hist = [epoch_end |-> <<>>, last_step |-> 0]
    /\ self_out = None
    /\ fwd = NoFwd

\* ---------------------------------------------------------------- train()
\* lines 163-177: loop head, fresh accumulator, the groups of this epoch
EpochStart ==
    /\ pc = "epoch"
    /\ epoch < NumEpochs
    /\ loss_in' \in LossValues
    /\ epoch_losses' = Zeros(NAdj + NLabels)
    /\ slot_writes' = [s \in 1..(NAdj + NLabels) |-> <<>>]
    /\ draws' = 0
    /\ grp' = 0
    /\ IF SubSampling
       THEN IF NumSections(NAdj, params.sample_size) = 0
            THEN \* np.array_split: number sections must be larger than 0
                 /\ idx_split' = <<>>
                 /\ pc' = "failed"
                 /\ error' = "ValueError: array_split"
            ELSE /\ \E rand_net_idxs \in Perms(NAdj) :
                        idx_split' = ArraySplit(rand_net_idxs,
                                                NumSections(NAdj, params.sample_size))
                 /\ pc' = "train_step"
                 /\ error' = error
       ELSE /\ idx_split' = <<>>
            /\ pc' = "train_step"
            /\ error' = error
    /\ UNCHANGED <<params, epoch, perm, step, train_loss, best_loss, best_state, tensors,
                   hist, self_out, fwd>>

\* lines 230-254: _train_step up to its batch loop
TrainStepBegin ==
    /\ pc = "train_step"
    /\ \E drawn \in Perms(NumNodes) :
          LET rand_int == StatefulSamplerStep(NumNodes, TRUE, drawn)
              rand_net_idx == IF SubSampling THEN idx_split[grp + 1] ELSE None
              n_loaders == Len(ActiveNets(rand_net_idx))
          IN /\ perm' = rand_int
             /\ step' = [rand_net_idx |-> rand_net_idx, rand_int |-> rand_int, k |-> 0,
                         losses |-> Zeros(n_loaders + NLabels), tags |-> <<>>,
                         ops |-> <<>>, batch |-> <<>>]
    /\ draws' = draws + 1
    /\ pc' = "batch"
    /\ UNCHANGED <<params, error, epoch, loss_in, epoch_losses, slot_writes, idx_split, grp,
                   train_loss, best_loss, best_state, tensors, hist, self_out, fwd>>

\* the number of iterations of zip(mask_splits, int_splits, *batch_loaders)
NumBatches ==
    LET active == ActiveNets(step.rand_net_idx)
    IN Min(Len(TorchSplit(MaskRows(step.rand_int, active), params.batch_size)),
           Min(Len(TorchSplit(step.rand_int, params.batch_size)),
               Len(LoaderBatches(perm, params.batch_size))))

\* lines 257-318: one mini-batch
Batch ==
    /\ pc = "batch"
    /\ step.k < NumBatches
    /\ LET k == step.k + 1
           active == ActiveNets(step.rand_net_idx)
           batch_masks == TorchSplit(MaskRows(step.rand_int, active), params.batch_size)[k]
           node_ids == TorchSplit(step.rand_int, params.batch_size)[k]
           loader_ids == [j \in 1..Len(active) |-> LoaderBatches(perm, params.batch_size)[k]]
           recon_args == ReconArgs(active, node_ids, batch_masks)
           recon_losses == [j \in 1..Len(active) |-> loss_in]
           has_preds == ~LabelsIsNone
           cls_losses == [l \in 1..NLabels |-> loss_in]
           curr_losses == IF has_preds THEN recon_losses \o cls_losses ELSE recon_losses
           curr_tags == [j \in 1..Len(active) |-> <<"recon", active[j]>>]
                        \o (IF has_preds THEN [l \in 1..NLabels |-> <<"cls", l - 1>>] ELSE <<>>)
           losses == ZipAdd(step.losses, curr_losses)
           loss_sum == LossSum(recon_losses, cls_losses, has_preds)
       IN /\ step' = [step EXCEPT !.k = k,
                                  !.losses = losses,
                                  !.tags = SubSeq(curr_tags, 1, Len(losses)),
                                  !.ops = step.ops \o BatchOps,
                                  !.batch = <<[node_ids |-> node_ids, loader_ids |-> loader_ids,
                                               batch_masks |-> batch_masks, active |-> active,
                                               recon_args |-> recon_args,
                                               losses_before |-> step.losses,
                                               loss_sum |-> loss_sum]>>]
          /\ tensors' = [tensors EXCEPT ![ModelAddr] = OptimizerStep(tensors[ModelAddr])]
          /\ hist' = [hist EXCEPT !.last_step = OptimizerStep(tensors[ModelAddr])]
    /\ UNCHANGED <<params, pc, error, epoch, loss_in, epoch_losses, slot_writes, idx_split,
                   grp, perm, draws, train_loss, best_loss, best_state, self_out, fwd>>


\* lines 180-181: for idx, loss in zip(rand_idxs, losses): epoch_losses[idx] += loss
AddReconLosses(acc, rand_idxs, losses) ==
    LET m == Min(Len(rand_idxs), Len(losses))
    IN [s \in 1..Len(acc) |->
          IF \E j \in 1..m : rand_idxs[j] = s - 1
          THEN acc[s] + NumNodes * losses[CHOOSE j \in 1..m : rand_idxs[j] = s - 1]
          ELSE acc[s]]

\* line 185: the accumulator slot of the idx-th classification loss of a group
ClsSlot(rand_idxs, idx) == Len(rand_idxs) + idx

\* lines 184-185: for idx, loss in enumerate(losses[len(rand_idxs):]): epoch_losses[slot] = loss
SetClsLosses(acc, rand_idxs, losses) ==
    LET tail == SubSeq(losses, Len(rand_idxs) + 1, Len(losses))
        hit(s) == {idx \in 0..(Len(tail) - 1) : ClsSlot(rand_idxs, idx) = s - 1}
    IN [s \in 1..Len(acc) |->
          IF hit(s) # {} THEN NumNodes * tail[(CHOOSE idx \in hit(s) : TRUE) + 1] ELSE acc[s]]

\* the loss terms lines 180-185 write into slot s (0-based), in order
GroupWrites(s, rand_idxs, tags) ==
    LET m == Min(Len(rand_idxs), Len(tags))
        tail == SubSeq(tags, Len(rand_idxs) + 1, Len(tags))
    IN (IF \E j \in 1..m : rand_idxs[j] = s
        THEN <<tags[CHOOSE j \in 1..m : rand_idxs[j] = s]>> ELSE <<>>)
       \o (IF \E idx \in 0..(Len(tail) - 1) : ClsSlot(rand_idxs, idx) = s
           THEN <<tail[(CHOOSE idx \in 0..(Len(tail) - 1) : ClsSlot(rand_idxs, idx) = s) + 1]>>
           ELSE <<>>)

\* lines 190-193: ep_loss + b_loss.item() / (len(self.index) / batch_size)
AddAveraged(acc, losses) ==
    [s \in 1..Min(Len(acc), Len(losses)) |-> acc[s] + losses[s] * params.batch_size]

\* line 320 and lines 179-193: _train_step returns (its locals are gone), its losses
\* enter the accumulator
TrainStepReturn ==
    /\ pc = "batch"
    /\ step.k = NumBatches
    /\ IF SubSampling
       THEN LET rand_idxs == idx_split[grp + 1]
            IN /\ epoch_losses' = SetClsLosses(AddReconLosses(epoch_losses, rand_idxs, step.losses),
                                               rand_idxs, step.losses)
               /\ slot_writes' = [s \in 1..Len(slot_writes) |->
                                     slot_writes[s] \o GroupWrites(s - 1, rand_idxs, step.tags)]
               /\ grp' = grp + 1
               /\ pc' = IF grp + 1 < Len(idx_split) THEN "train_step" ELSE "epoch_end"
       ELSE /\ epoch_losses' = AddAveraged(epoch_losses, step.losses)
            /\ slot_writes' = [s \in 1..Len(slot_writes) |->
                                  slot_writes[s] \o (IF s <= Len(step.tags) THEN <<step.tags[s]>> ELSE <<>>)]
            /\ grp' = grp
            /\ pc' = "epoch_end"
    /\ step' = NoStep
    /\ UNCHANGED <<params, error, epoch, loss_in, idx_split, perm, draws, train_loss,
                   best_loss, best_state, tensors, hist, self_out, fwd>>

\* Python truth value of best_loss: None and 0 are false
Truthy(x) == x # None /\ x[1] # 0

\* line 212: not best_loss or sum(epoch_losses) < best_loss
IsNewBest(total, best) == ~Truthy(best) \/ total < best[1]

\* lines 199-219 for a given setting of use_tensorboard: the metrics sink, the
\* loss history and the best snapshot. self.names is read at line 202 and is
\* set nowhere in Trainer.
RecordLoss(use_tensorboard) ==
    LET total == SumSeq(epoch_losses)
        new_best == IsNewBest(total, best_loss)
    IN IF use_tensorboard /\ NAdj <= TensorboardMaxNets
       THEN [pc |-> "failed", error |-> "AttributeError: names", epoch |-> epoch,
             train_loss |-> train_loss, best_loss |-> best_loss, best_state |-> best_state]
       ELSE [pc |-> "epoch", error |-> error, epoch |-> epoch + 1,
             train_loss |-> Append(train_loss, epoch_losses),
             best_loss |-> IF new_best THEN <<total>> ELSE best_loss,
             best_state |-> IF new_best
                            THEN <<[epoch |-> epoch + 1, state_dict |-> StateDict,
                                    best_loss |-> total]>>
                            ELSE best_state]

\* lines 195-219: the end of one epoch; the groups of the epoch are dead from here on
EpochEnd ==
    /\ pc = "epoch_end"
    /\ LET r == RecordLoss(params.use_tensorboard)
       IN /\ pc' = r.pc
          /\ error' = r.error
          /\ epoch' = r.epoch
          /\ train_loss' = r.train_loss
          /\ best_loss' = r.best_loss
          /\ best_state' = r.best_state
          /\ hist' = IF r.pc = "failed" THEN hist
                     ELSE [hist EXCEPT !.epoch_end = Append(hist.epoch_end, tensors[ModelAddr])]
    /\ idx_split' = <<>>
    /\ slot_writes' = <<>>
    /\ UNCHANGED <<params, loss_in, epoch_losses, grp, perm, draws, step, tensors, self_out, fwd>>

\* lines 221-224: the loop is over
TrainFinish ==
    /\ pc = "epoch"
    /\ epoch = NumEpochs
    /\ self_out' = <<[train_loss |-> train_loss, best_state |-> best_state]>>
    /\ pc' = "trained"
    /\ UNCHANGED <<params, error, epoch, loss_in, epoch_losses, slot_writes, idx_split, grp,
                   perm, draws, step, train_loss, best_loss, best_state, tensors, hist, fwd>>

\* ---------------------------------------------------------------- forward()
\* the best snapshot restored whatever the objectives
RestoresBestAlways == TRUE

\* line 352: the best snapshot is restored when there is no classification objective
RestoresBest == LabelsIsNone

\* the result of self.model(...) for the nodes of one batch of data flows
ModelCall(node_ids, mask_row, p) ==
    [r \in 1..Len(node_ids) |-> [node |-> node_ids[r], mask |-> mask_row, params |-> p]]

\* the label predictions of one model call: one matrix per label set, None without labels
LabelPreds(node_ids) ==
    IF LabelsIsNone THEN None
    ELSE [l \in 1..NLabels |-> [r \in 1..Len(node_ids) |-> [node |-> node_ids[r], label |-> l - 1]]]

\* pd.DataFrame(data, index=index) needs one row of data per index entry
DataFrameFits(data, index) == Len(data) = Len(index)
DataFrame(data, index) == [k \in 1..Len(index) |-> [index |-> index[k], row |-> data[k]]]

\* np.concatenate(emb_list)
RECURSIVE Concatenate(_)
Concatenate(l) == IF l = <<>> THEN <<>> ELSE l[1] \o Concatenate(Tail(l))

\* lines 351-366: restore, eval mode, sequential ordering
ForwardBegin ==
    /\ pc = "trained"
    /\ tensors' = IF RestoresBest
                  THEN [tensors EXCEPT ![ModelAddr] = tensors[self_out[1].best_state[1].state_dict]]
                  ELSE tensors
    /\ perm' = StatefulSamplerStep(NumNodes, FALSE, None)
    /\ fwd' = [fwd EXCEPT !.loaded = RestoresBest]
    /\ pc' = "forward"
    /\ UNCHANGED <<params, error, epoch, loss_in, epoch_losses, slot_writes, idx_split, grp,
                   draws, step, train_loss, best_loss, best_state, hist, self_out>>

\* the number of iterations of zip(self.masks, self.index, *self.inference_loaders)
NumForwardPasses == Min(NumNodes, Len(LoaderBatches(perm, 1)))

\* lines 374-379: the pass for one node
ForwardNode ==
    /\ pc = "forward"
    /\ fwd.i < NumForwardPasses
    /\ LET data_flows == LoaderBatches(perm, 1)[fwd.i + 1]
           mask == [g \in 1..NAdj |-> Masks(fwd.i, g - 1)]
       IN fwd' = [fwd EXCEPT !.i = fwd.i + 1,
                             !.emb_list = Append(fwd.emb_list,
                                                 ModelCall(data_flows, mask, tensors[ModelAddr])),
                             !.label_preds = LabelPreds(data_flows)]
    /\ UNCHANGED <<params, pc, error, epoch, loss_in, epoch_losses, slot_writes, idx_split,
                   grp, perm, draws, step, train_loss, best_loss, best_state, tensors, hist,
                   self_out>>

\* lines 380-439: the embedding table and the label-prediction tables.
\* params.save_label_predictions is read here for the first time (line 421), so
\* its value is drawn here.
ForwardOutputs ==
    /\ pc = "forward"
    /\ fwd.i = NumForwardPasses
    /\ \E save_label_predictions \in BOOLEAN :
          LET emb == Concatenate(fwd.emb_list)
              index == Arange(NumNodes)
              saves == save_label_predictions /\ ~LabelsIsNone
              f == [fwd EXCEPT !.save_label_predictions = save_label_predictions]
          IN IF ~DataFrameFits(emb, index)
             THEN /\ pc' = "failed"
                  /\ error' = "ValueError: DataFrame shape"
                  /\ fwd' = f
             ELSE IF saves /\ \E l \in 1..NLabels : ~DataFrameFits(fwd.label_preds[l], index)
                  THEN /\ pc' = "failed"
                       /\ error' = "ValueError: DataFrame shape"
                       /\ fwd' = [f EXCEPT !.emb_df = DataFrame(emb, index)]
                  ELSE /\ pc' = "done"
                       /\ error' = error
                       /\ fwd' = [f EXCEPT
                                    !.emb_df = DataFrame(emb, index),
                                    !.pred_dfs =
                                        IF saves
                                        THEN [l \in 1..NLabels |->
                                                DataFrame(fwd.label_preds[l], index)]
                                        ELSE <<>>]
    /\ UNCHANGED <<params, epoch, loss_in, epoch_losses, slot_writes, idx_split, grp, perm,
                   draws, step, train_loss, best_loss, best_state, tensors, hist, self_out>>

Next ==
    \/ EpochStart \/ TrainStepBegin \/ Batch \/ TrainStepReturn \/ EpochEnd \/ TrainFinish
    \/ ForwardBegin \/ ForwardNode \/ ForwardOutputs

Spec == Init /\ [][Next]_vars


\* ---------------------------------------------------------------- properties
\* the totals of the completed epochs, L0..Lk
Totals == [k \in 1..Len(train_loss) |-> SumSeq(train_loss[k])]
MinTotal == CHOOSE m \in {Totals[k] : k \in 1..Len(train_loss)} :
                \A k \in 1..Len(train_loss) : m <= Totals[k]
FirstAt(m) == CHOOSE k \in 1..Len(train_loss) :
                 Totals[k] = m /\ \A j \in 1..(k - 1) : Totals[j] # m

\* C1: after every completed epoch best_loss is the minimum of the epoch totals so
\* far and best_state names the first epoch that reached it (ties and a best of 0
\* never overwrite).
C1_BestIsFirstMinimum ==
    train_loss # <<>> =>
        /\ best_loss = <<MinTotal>>
        /\ best_state # None
        /\ best_state[1].best_loss = MinTotal
        /\ best_state[1].epoch = FirstAt(MinTotal)

\* C2: the parameters held by best_state are those the model had at the end of the
\* epoch the snapshot was taken in, whatever the optimizer did afterwards.
C2_SnapshotIsCopy ==
    best_state # None =>
        tensors[best_state[1].state_dict] = hist.epoch_end[best_state[1].epoch]

\* C3: in every batch the node ids of every active loader, the node_ids slice and
\* the rows of the mask slice name the same nodes in the same order, and the mask
\* column given to the reconstruction loss of a graph is the column of that graph.
C3_BatchAligned ==
    (pc = "batch" /\ step.batch # <<>>) =>
        LET b == step.batch[1]
        IN /\ Len(b.loader_ids) = Len(b.active)
           /\ \A j \in 1..Len(b.active) : b.loader_ids[j] = b.node_ids
           /\ Len(b.batch_masks) = Len(b.node_ids)
           /\ \A r \in 1..Len(b.node_ids) :
                 /\ Len(b.batch_masks[r]) = Len(b.active)
                 /\ \A c \in 1..Len(b.active) :
                       b.batch_masks[r][c] = Masks(b.node_ids[r], b.active[c])
           /\ Len(b.recon_args) = Len(b.active)
           /\ \A j \in 1..Len(b.active) :
                 /\ b.recon_args[j].adj = b.active[j]
                 /\ b.recon_args[j].node_ids = b.node_ids
                 /\ b.recon_args[j].mask =
                       [r \in 1..Len(b.node_ids) |-> Masks(b.node_ids[r], b.active[j])]

\* a second batch of a sub-sampled pass over two graphs taken out of order, under
\* an ordering that is not the canonical one
C3_Witness ==
    /\ pc = "batch"
    /\ step.batch # <<>>
    /\ SubSampling
    /\ step.k = 2
    /\ Len(step.batch[1].active) >= 2
    /\ step.batch[1].active[1] > step.batch[1].active[2]
    /\ step.rand_int[1] # 0

\* C4: every batch makes one zero_grad, one backward and one optimizer step, in that
\* order, and the scalar given to backward is the sum of the terms the batch adds to
\* the running totals.
C4_OneJointUpdatePerBatch ==
    pc = "batch" =>
        /\ Len(step.ops) = 3 * step.k
        /\ \A b \in 0..(step.k - 1) :
              /\ step.ops[3 * b + 1] = "zero_grad"
              /\ step.ops[3 * b + 2] = "backward"
              /\ step.ops[3 * b + 3] = "step"
        /\ step.batch # <<>> =>
              /\ Len(step.losses) = Len(step.batch[1].losses_before)
              /\ SumSeq(step.losses) - SumSeq(step.batch[1].losses_before)
                    = step.batch[1].loss_sum

\* the second batch of a pass with labels and non-zero loss terms
C4_Witness ==
    /\ pc = "batch"
    /\ step.k = 2
    /\ ~LabelsIsNone
    /\ NAdj >= 2
    /\ step.batch[1].loss_sum > 0

\* C5: with sub-sampling, at the end of an epoch every reconstruction slot has been
\* written exactly once, by the reconstruction loss of the graph with its index.
C5_ReconSlotsWrittenOnce ==
    (pc = "epoch_end" /\ SubSampling) =>
        \A s \in 0..(NAdj - 1) : slot_writes[s + 1] = << <<"recon", s>> >>

\* forward() has passed its first lines
InForward ==
    pc = "forward" \/ pc = "done" \/ (pc = "failed" /\ error = "ValueError: DataFrame shape")

\* C6: forward() restores the best snapshot exactly when there are no labels; with
\* labels every pass runs on the parameters left by the last optimizer step.
C6_RestoreIffUnsupervised ==
    InForward =>
        /\ fwd.loaded <=> LabelsIsNone
        /\ ~LabelsIsNone =>
              \A k \in 1..Len(fwd.emb_list) :
                  \A r \in 1..Len(fwd.emb_list[k]) :
                      fwd.emb_list[k][r].params = hist.last_step

\* forward() has made all its passes with labels configured
C6_Witness ==
    /\ pc = "done"
    /\ ~LabelsIsNone
    /\ Len(fwd.emb_list) = NumNodes
    /\ hist.last_step > 0

\* C7: the end of an epoch has the same outcome (control flow, loss history, best
\* snapshot) with the metrics sink as without it.
C7_SinkTransparent ==
    pc = "epoch_end" => RecordLoss(TRUE) = RecordLoss(FALSE)

\* C8: when forward() has ended, the embedding table and, when they are saved, the
\* label-prediction tables hold for each node of the index, in order, the row made
\* by the pass for that node.
C8_OneRowPerNode ==
    (pc = "done" \/ (pc = "failed" /\ error = "ValueError: DataFrame shape")) =>
        /\ Len(fwd.emb_df) = NumNodes
        /\ \A k \in 1..Len(fwd.emb_df) :
              /\ fwd.emb_df[k].index = k - 1
              /\ fwd.emb_df[k].row.node = k - 1
        /\ (fwd.save_label_predictions /\ ~LabelsIsNone) =>
              /\ Len(fwd.pred_dfs) = NLabels
              /\ \A l \in 1..Len(fwd.pred_dfs) :
                    /\ Len(fwd.pred_dfs[l]) = NumNodes
                    /\ \A k \in 1..Len(fwd.pred_dfs[l]) :
                          /\ fwd.pred_dfs[l][k].index = k - 1
                          /\ fwd.pred_dfs[l][k].row = [node |-> k - 1, label |-> l - 1]

\* C9: with sub-sampling and labels, the classification loss of label l is only
\* ever recorded in slot G + l.
C9_ClsLossAtTail ==
    (SubSampling /\ ~LabelsIsNone) =>
        \A s \in 1..Len(slot_writes) :
            \A i \in 1..Len(slot_writes[s]) :
                slot_writes[s][i][1] = "cls" => s - 1 = NAdj + slot_writes[s][i][2]

GroupsDrawn == pc = "train_step" \/ pc = "batch" \/ pc = "epoch_end"

\* C11: with sub-sampling, for every G >= 1 and S >= 1 the epoch does not fail (also
\* when G <= S), its groups are non-empty, pairwise disjoint, cover [0, G) and hold
\* at most S graphs each, and at the end of the epoch one pass was run per group.
C11_GroupsPartitionWithinSampleSize ==
    SubSampling =>
        /\ error # "ValueError: array_split"
        /\ GroupsDrawn =>
              /\ Len(idx_split) >= 1
              /\ \A g \in 1..Len(idx_split) :
                    /\ Len(idx_split[g]) >= 1
                    /\ Len(idx_split[g]) <= params.sample_size
                    /\ \A i, j \in 1..Len(idx_split[g]) :
                          idx_split[g][i] = idx_split[g][j] => i = j
              /\ \A g, h \in 1..Len(idx_split) :
                    g # h => \A i \in 1..Len(idx_split[g]), j \in 1..Len(idx_split[h]) :
                                idx_split[g][i] # idx_split[h][j]
              /\ UNION {{idx_split[g][i] : i \in 1..Len(idx_split[g])} : g \in 1..Len(idx_split)}
                    = 0..(NAdj - 1)
        /\ pc = "epoch_end" => grp = Len(idx_split)

====
